---- MODULE Spec2Model ----
(***************************************************************************)
(* Model of the TradingView webhook handler of src/main.py: the in-memory  *)
(* daily ledger (current_day, daily_loss_r, trade_count), the signal       *)
(* parser, the order decision logic and the Discord notification.          *)
(*                                                                         *)
(* tradingview_webhook is an `async def` that runs on one event loop.  It  *)
(* suspends at `await request.body()` (line 110) and at the Discord post   *)
(* (lines 313-314); everything between those two awaits (lines 111-311,    *)
(* the Alpaca calls included, which are blocking calls) runs without       *)
(* yielding.  Process is that whole section, NotifyOk and NotifyFail are    *)
(* the post.                                                               *)
(*                                                                         *)
(* The second part models ORBTradingBot of src/orb_discord_bot.py, a       *)
(* separate program: its fields, the process_webhook coroutines scheduled  *)
(* on its event loop, the orb_start and orb_stop commands and the two task *)
(* loops monitor_positions and daily_reset.  Spec and SpecEngine run the   *)
(* webhook handler with the bot left as constructed; SpecBot and           *)
(* SpecBotCap run the bot with no webhook handler beside it.               *)
(***************************************************************************)
EXTENDS Integers, Sequences, FiniteSets, Bags, TLC

\* ---- bounds of the model ----
NumRequests == 4       \* webhook requests handled in one run
MaxDay == 2            \* UTC days the clock runs through (1..MaxDay)
MaxLossUnits == 3      \* daily_loss_r is explored down to -MaxLossUnits

\* ---- program constants (src/main.py:20-22) ----
RISK_PER_TRADE == <<1, 200>>     \* 0.005 as a fraction
MAX_DAILY_LOSS_R == 2
MAX_TRADES_PER_DAY == 3

Requests == 1..NumRequests
Days == 1..MaxDay
NoDay == 0             \* current_day = None

\* ---- exact arithmetic on non-negative fractions <<numerator, denominator>> ----
RECURSIVE GCD(_, _)
GCD(a, b) == IF b = 0 THEN a ELSE GCD(b, a % b)

Frac(n, d) == LET g == GCD(n, d) IN <<n \div g, d \div g>>
FracLeq(x, y) == x[1] * y[2] <= y[1] * x[2]
FracMul(x, y) == Frac(x[1] * y[1], x[2] * y[2])
FracDiv(x, y) == Frac(x[1] * y[2], x[2] * y[1])
FracOfInt(n) == <<n, 1>>
Abs(n) == IF n < 0 THEN -n ELSE n
Min(a, b) == IF a <= b THEN a ELSE b

\* ---- symbols are strings of characters ----
QQQ == <<"Q", "Q", "Q">>
BTC_USD == <<"B", "T", "C", "/", "U", "S", "D">>
HasSlash(symbol) == \E i \in 1..Len(symbol) : symbol[i] = "/"
NotSlash(c) == c # "/"

\* a lookup that keeps the symbol as received
symbol_for_positions_Unchanged(symbol) == symbol

symbol_for_positions(symbol) ==
    IF HasSlash(symbol) THEN SelectSeq(symbol, NotSlash) ELSE symbol

\* a day order for every symbol
tif_for_symbol_AlwaysDay(symbol) == "DAY"

tif_for_symbol(symbol) == IF HasSlash(symbol) THEN "GTC" ELSE "DAY"

\* ---- JSON values of the optional fields ----
Absent == [tag |-> "absent"]           \* key not in the object: data.get -> None
Num(v) == [tag |-> "num", v |-> v]     \* a JSON number
BadStr == [tag |-> "str"]              \* a JSON string float() cannot parse
Str(s) == [tag |-> "text", s |-> s]

\* float() that reads a missing field as 0
float_NoneIsZero(x) ==
    CASE x.tag = "num" -> [ok |-> TRUE, v |-> x.v]
      [] x.tag = "absent" -> [ok |-> TRUE, v |-> 0]
      [] OTHER -> [ok |-> FALSE, v |-> 0]

\* float(x): the value, or the exception it raises
float(x) ==
    CASE x.tag = "num" -> [ok |-> TRUE, v |-> x.v]
      [] x.tag = "absent" -> [ok |-> FALSE, v |-> 0]    \* TypeError
      [] OTHER -> [ok |-> FALSE, v |-> 0]               \* ValueError


\* ---- webhook bodies ----
SPY == <<"S", "P", "Y">>
Markers == {"ORB_QQQ_ENTRY_LONG", "ORB_QQQ_ENTRY_SHORT", "ORB_QQQ_EXIT"}
EntryEvents == {"ENTRY_LONG", "ENTRY_SHORT"}
OtherEvents == {"PARTIAL_EXIT", "FINAL_EXIT", "HOLD"}
SymbolFields == {Absent, Str(SPY), Str(BTC_USD)}
ReasonFields == {Absent, Str("STOP_PHASE1"), Str("EOD")}

\* <<entryPrice, orHigh, orLow>> as they appear in the JSON object
PriceCases ==
    { <<Num(100), Num(101), Num(99)>>,      \* risk per unit 1, sized by risk
      <<Num(300), Num(301), Num(299)>>,     \* risk per unit 1, capped by notional
      <<Num(100), Num(100), Num(100)>>,     \* risk per unit 0
      <<Num(0), Num(101), Num(99)>>,        \* entry price not positive
      <<Absent, Num(101), Num(99)>>,
      <<Num(100), Absent, Num(99)>>,
      <<Num(100), Num(101), Absent>>,
      <<Num(100), BadStr, Num(99)>> }

\* shape "json": the body decodes to a non-empty object with these fields.
\* shape "emptyjson": the body is {} (decodes, but the object is falsy).
\* shape "badjson": the body starts with { and does not decode.
\* shape "text": the body does not start with {.
\* markers: the legacy markers that occur in the body text.
JsonBody(event, symbol, reason, prices) ==
    [shape |-> "json", markers |-> {}, event |-> event, symbol |-> symbol,
     reason |-> reason, entryPrice |-> prices[1], orHigh |-> prices[2],
     orLow |-> prices[3]]

RawBody(shape, markers) ==
    [shape |-> shape, markers |-> markers, event |-> Absent, symbol |-> Absent,
     reason |-> Absent, entryPrice |-> Absent, orHigh |-> Absent,
     orLow |-> Absent]

Bodies ==
    { JsonBody(Str(e), s, Absent, p) :
          e \in EntryEvents, s \in SymbolFields, p \in PriceCases }
    \cup { JsonBody(Str(e), s, rs, <<Absent, Absent, Absent>>) :
          e \in OtherEvents, s \in SymbolFields, rs \in ReasonFields }
    \cup { JsonBody(Absent, Absent, rs, <<Absent, Absent, Absent>>) :
          rs \in ReasonFields }
    \cup { RawBody(sh, m) : sh \in {"text", "badjson"}, m \in SUBSET Markers }
    \cup { RawBody("emptyjson", {}) }

\* a parser that gives up on a body that starts with { and does not decode
Parse_BadJsonIsUnknown(body) ==
    IF body.shape = "json"
    THEN [data |-> TRUE,
          event_type |-> IF body.event = Absent THEN "UNKNOWN" ELSE body.event.s,
          symbol |-> IF body.symbol = Absent THEN QQQ ELSE body.symbol.s,
          reason |-> body.reason]
    ELSE [data |-> FALSE,
          event_type |->
              IF body.shape = "badjson" THEN "UNKNOWN"
              ELSE IF "ORB_QQQ_ENTRY_LONG" \in body.markers THEN "ENTRY_LONG"
              ELSE IF "ORB_QQQ_ENTRY_SHORT" \in body.markers THEN "ENTRY_SHORT"
              ELSE IF "ORB_QQQ_EXIT" \in body.markers THEN "FINAL_EXIT"
              ELSE "UNKNOWN",
          symbol |-> QQQ,
          reason |-> Absent]

\* lines 115-143: data, event_type, symbol, reason
Parse(body) ==
    LET data == body.shape = "json"
    IN  IF data
        THEN [data |-> TRUE,
              event_type |-> IF body.event = Absent THEN "UNKNOWN" ELSE body.event.s,
              symbol |-> IF body.symbol = Absent THEN QQQ ELSE body.symbol.s,
              reason |-> body.reason]
        ELSE [data |-> FALSE,
              event_type |->
                  IF "ORB_QQQ_ENTRY_LONG" \in body.markers THEN "ENTRY_LONG"
                  ELSE IF "ORB_QQQ_ENTRY_SHORT" \in body.markers THEN "ENTRY_SHORT"
                  ELSE IF "ORB_QQQ_EXIT" \in body.markers THEN "FINAL_EXIT"
                  ELSE "UNKNOWN",
              symbol |-> QQQ,
              reason |-> Absent]

\* ---- the daily ledger ----
Ledger(day, loss, trades) == [day |-> day, loss |-> loss, trades |-> trades]

\* a reset that adopts the day and keeps the counters
reset_KeepsCounters(L, today) ==
    IF L.day # today THEN Ledger(today, L.loss, L.trades) ELSE L

\* a reset that zeroes the counters on every call
reset_OnEveryCall(L, today) == Ledger(today, 0, 0)

\* a reset that clears the loss on every call
reset_ClearsLoss(L, today) ==
    IF L.day # today THEN Ledger(today, 0, 0) ELSE Ledger(L.day, 0, L.trades)

reset_daily_if_needed(L, today) ==
    IF L.day # today THEN Ledger(today, 0, 0) ELSE L

\* the loss test with < for <=, the trade test with > for >=
LossLimitReached_Strict(L) == L.loss < -MAX_DAILY_LOSS_R
MaxTradesReached_OffByOne(L) == L.trades > MAX_TRADES_PER_DAY

\* lines 153 and 158: the two guardrail tests
LossLimitReached(L) == L.loss <= -MAX_DAILY_LOSS_R
MaxTradesReached(L) == L.trades >= MAX_TRADES_PER_DAY

\* ---- replies of the Alpaca client ----
Raises == [ok |-> FALSE]
Equities == {-100, 0, 100000}
AccountReplies == {Raises} \cup {[ok |-> TRUE, equity |-> q] : q \in Equities}
SubmitReplies == {Raises, [ok |-> TRUE]}
\* get_open_position raises both when the request fails and when the symbol
\* has no open position
NotFound == [ok |-> FALSE, missing |-> TRUE]
PositionReplies ==
    {Raises, NotFound}
    \cup {[ok |-> TRUE, qty |-> q, side |-> sd] :
             q \in {0, 5, 10}, sd \in {"long", "short"}}
CloseReplies == {Raises, [ok |-> TRUE]}

\* ---- client calls, as recorded by the model ----
\* get_account is recorded with what it returned
GetAccount(reply) == [op |-> "get_account", reply |-> reply]
SubmitOrder(symbol, qty, side, tif) ==
    [op |-> "submit_order", symbol |-> symbol, qty |-> qty, side |-> side,
     tif |-> tif]
\* get_open_position is recorded with what it returned
GetOpenPosition(symbol, reply) ==
    [op |-> "get_open_position", symbol |-> symbol, reply |-> reply]
ClosePosition(symbol) == [op |-> "close_position", symbol |-> symbol]

\* result of the section between the two awaits: the alpaca_result message
\* (named by its template), guardrail_info, the client calls made, the ledger
\* left behind and whether an HTTPException left the handler
Out(result, info, calls, L) ==
    [result |-> result, guardrail_info |-> info, calls |-> calls,
     ledger |-> L, raised |-> FALSE]

\* a client call that raised
Raised(call) == call @@ [raised |-> TRUE]

\* an exception of a client call that leaves the handler
Caught_NotAtAll(result, calls, L) ==
    [Out(result, "", calls, L) EXCEPT !.raised = TRUE]

\* lines 265-266, 286-290 and 294-295: an exception of a client call is
\* caught and reported in alpaca_result
Caught(result, calls, L) == Out(result, "", calls, L)

\* sizing that takes the larger of the two quantities
Qty_Larger(equity, risk_per_unit, entry_price) ==
    LET dollar_risk == FracMul(FracOfInt(equity), RISK_PER_TRADE)
        qty_from_risk == FracDiv(dollar_risk, FracOfInt(risk_per_unit))
        max_qty_notional == Frac(equity, entry_price)
    IN  IF FracLeq(qty_from_risk, max_qty_notional)
        THEN max_qty_notional ELSE qty_from_risk

\* sizing by risk alone, without the notional cap
Qty_RiskOnly(equity, risk_per_unit, entry_price) ==
    FracDiv(FracMul(FracOfInt(equity), RISK_PER_TRADE), FracOfInt(risk_per_unit))

\* lines 196-202
Qty(equity, risk_per_unit, entry_price) ==
    LET dollar_risk == FracMul(FracOfInt(equity), RISK_PER_TRADE)
        qty_from_risk == FracDiv(dollar_risk, FracOfInt(risk_per_unit))
        max_qty_notional == Frac(equity, entry_price)
    IN  IF FracLeq(qty_from_risk, max_qty_notional)
        THEN qty_from_risk ELSE max_qty_notional

\* an entry that is not counted
RecordEntry_Forgotten(L) == L

\* line 226
RecordEntry(L) == Ledger(L.day, L.loss, L.trades + 1)

\* a stop exit booked with the wrong sign
RecordLoss_AsGain(L) == Ledger(L.day, L.loss + 1, L.trades)

\* line 280
RecordLoss(L) == Ledger(L.day, L.loss - 1, L.trades)

\* a refusal reported only after the equity was fetched
GuardrailBlocked_AfterEquity(result, info, L) ==
    {Out(result, info, <<GetAccount(acct)>>, L) :
        acct \in AccountReplies \ {Raises}}

\* the alpaca_result messages of lines 155 and 160
GuardrailResults == {"BlockedLossLimit", "BlockedMaxTrades"}

\* lines 153-162: an entry refused by a guardrail; no client call is made
GuardrailBlocked(result, info, L) == {Out(result, info, <<>>, L)}

\* the risk test with < for <=
RiskNotPositive_Strict(risk_per_unit) == risk_per_unit < 0

\* line 183
RiskNotPositive(risk_per_unit) == risk_per_unit <= 0

\* lines 183-231: sizing and submission once the prices are parsed
SizeAndSubmit(p, L, entry_price, stop_price) ==
    LET risk_per_unit == Abs(entry_price - stop_price)
    IN  IF RiskNotPositive(risk_per_unit)
        THEN {Out("InvalidRisk", "", <<>>, L)}
        ELSE UNION { IF ~acct.ok
                     THEN {Caught("TradingError", <<Raised(GetAccount(acct))>>, L)}
                     ELSE IF acct.equity <= 0
                     THEN {Out("EquityNonPositive", "", <<GetAccount(acct)>>, L)}
                     ELSE LET qty == Qty(acct.equity, risk_per_unit, entry_price)
                              side == IF p.event_type = "ENTRY_LONG"
                                      THEN "BUY" ELSE "SELL"
                              order == SubmitOrder(p.symbol, qty, side,
                                                   tif_for_symbol(p.symbol))
                          IN  IF qty[1] <= 0
                              THEN {Out("QtyNonPositive", "", <<GetAccount(acct)>>, L)}
                              ELSE { IF sub.ok
                                     THEN Out("Placed", "", <<GetAccount(acct), order>>,
                                              RecordEntry(L))
                                     ELSE Caught("TradingError",
                                                 <<GetAccount(acct), Raised(order)>>,
                                                 L)
                                     : sub \in SubmitReplies }
                   : acct \in AccountReplies }

\* lines 151-231
EntryBranch(p, body, L) ==
    IF LossLimitReached(L)
    THEN GuardrailBlocked("BlockedLossLimit", "Blocked by -2R daily limit.", L)
    ELSE IF MaxTradesReached(L)
    THEN GuardrailBlocked("BlockedMaxTrades",
                          "Blocked by 3-trades-per-day limit.", L)
    ELSE LET entry_price == float(body.entryPrice)
             or_high == float(body.orHigh)
             or_low == float(body.orLow)
             parsed == entry_price.ok /\ or_high.ok /\ or_low.ok
         IN  IF ~parsed \/ entry_price.v <= 0
             THEN {Out("MissingPrice", "", <<>>, L)}
             ELSE SizeAndSubmit(p, L, entry_price.v,
                                IF p.event_type = "ENTRY_LONG"
                                THEN or_low.v ELSE or_high.v)

\* line 240: str(position.side).lower().  position.side comes from the
\* client: a plain string gives "long" or "short"; a member of a str-mixin
\* Enum PositionSide gives "positionside.long" or "positionside.short".
PositionSideTexts(side) ==
    {side, IF side = "long" THEN "positionside.long" ELSE "positionside.short"}

\* line 245
HalfQty(pos_qty) == Frac(pos_qty, 2)

\* an exit on the side of the position
ExitSide_SameSide(pos_side) == IF pos_side = "long" THEN "BUY" ELSE "SELL"

\* lines 246-248
ExitSide(pos_side) == IF pos_side = "long" THEN "SELL" ELSE "BUY"

\* lines 234-266
PartialExitBranch(p, L) ==
    UNION { LET lookup == GetOpenPosition(symbol_for_positions(p.symbol), pos)
            IN  IF ~pos.ok
                THEN {Caught("PartialError", <<Raised(lookup)>>, L)}
                ELSE IF pos.qty <= 0
                THEN {Out("NoPositionSize", "", <<lookup>>, L)}
                ELSE UNION {
                       LET order == SubmitOrder(p.symbol, HalfQty(pos.qty),
                                                ExitSide(pos_side),
                                                tif_for_symbol(p.symbol))
                       IN  { IF sub.ok
                             THEN Out("PartialClosed", "", <<lookup, order>>, L)
                             ELSE Caught("PartialError",
                                         <<lookup, Raised(order)>>, L)
                             : sub \in SubmitReplies }
                       : pos_side \in PositionSideTexts(pos.side) }
          : pos \in PositionReplies }

\* lines 269-290
FinalExitBranch(p, L) ==
    LET close == ClosePosition(symbol_for_positions(p.symbol))
    IN  { IF ~resp.ok
          THEN Caught("FinalError", <<Raised(close)>>, L)
          ELSE IF p.reason = Str("STOP_PHASE1")
          THEN Out("FinalClosed", "Recorded -1R loss (reason=STOP_PHASE1).",
                   <<close>>, RecordLoss(L))
          ELSE Out("FinalClosed", "", <<close>>, L)
          : resp \in CloseReplies }

\* a dispatch whose last branch takes every remaining event as a final exit
Engine_ElseIsFinalExit(p, body, L, alpaca) ==
    IF ~alpaca
    THEN {[Out("NoAction", "", <<>>, L) EXCEPT !.raised = TRUE]}
    ELSE IF p.event_type \in {"ENTRY_LONG", "ENTRY_SHORT"} /\ p.data
    THEN EntryBranch(p, body, L)
    ELSE IF p.event_type = "PARTIAL_EXIT"
    THEN PartialExitBranch(p, L)
    ELSE FinalExitBranch(p, L)

\* lines 147-295; alpaca is whether ALPACA_API_KEY and ALPACA_API_SECRET are set
Engine(p, body, L, alpaca) ==
    IF ~alpaca
    THEN {[Out("NoAction", "", <<>>, L) EXCEPT !.raised = TRUE]}
    ELSE IF p.event_type \in {"ENTRY_LONG", "ENTRY_SHORT"} /\ p.data
    THEN EntryBranch(p, body, L)
    ELSE IF p.event_type = "PARTIAL_EXIT"
    THEN PartialExitBranch(p, L)
    ELSE IF p.event_type = "FINAL_EXIT"
    THEN FinalExitBranch(p, L)
    ELSE {Out("NoAction", "", <<>>, L)}

\* ==== src/orb_discord_bot.py: ORBTradingBot ====
\* A second program of the repository: a Discord bot that keeps paper
\* positions in memory.  A Flask thread receives webhooks and schedules
\* process_webhook on the bot's event loop; the commands, the two task loops
\* and every process_webhook coroutine run on that one loop.

\* ---- bounds of the bot model ----
MaxSignals == 2        \* webhooks received in one run
MaxApplied == 2        \* times the monitor adds one position's P&L

\* ---- settings (lines 60-64) ----
StartBalance == 10000
risk_per_trade == <<2, 100>>
max_position_size == 1000
max_daily_trades == 10

\* ---- time of day ----
\* 0: 00:00-09:29, 1: the minute 09:30, 2: 09:31-15:59, 3: 16:00-23:59
SlotsPerDay == 4
TimesOfDay == 0..(SlotsPerDay - 1)
ResetTime == 1
NotStarted == -1

\* line 377: now.hour == 9 and now.minute == 30
IsResetMinute(now) == now = ResetTime

\* line 307: now.hour >= 16
AfterMarketClose(now) == now = 3

\* ---- webhook payloads (request.get_json()) ----
Symbols == {"AAPL", "MSFT"}
SignalData(symbol, direction, entry_price, stop_loss, take_profit) ==
    [kind |-> "signal", symbol |-> symbol, direction |-> direction,
     entry_price |-> entry_price, stop_loss |-> stop_loss,
     take_profit |-> take_profit]
MissingField == [kind |-> "missing"]     \* a dict without one required field
EmptyData == [kind |-> "empty"]          \* no JSON, or {}
WebhookData ==
    { SignalData("AAPL", "long", 100, 98, 103),
      SignalData("MSFT", "SHORT", 100, 102, 97),
      SignalData("MSFT", "long", 100, 98, 102),     \* reward/risk 1.0
      MissingField,
      EmptyData }

\* str.lower() on the directions that occur
Lower(direction) ==
    CASE direction = "LONG" -> "long"
      [] direction = "SHORT" -> "short"
      [] OTHER -> direction

NoSignal == [kind |-> "none"]

\* lines 139-156
parse_signal(data) ==
    IF data.kind # "signal" THEN NoSignal
    ELSE [data EXCEPT !.direction = Lower(data.direction)]

\* the trade limit with > for >=
TradeLimitReached_OffByOne(trades) == trades > max_daily_trades

\* line 179
TradeLimitReached(trades) == trades >= max_daily_trades

\* lines 176-200
validate_signal(signal, trades, balance) ==
    LET risk == Abs(signal.entry_price - signal.stop_loss)
        reward == Abs(signal.take_profit - signal.entry_price)
    IN  IF TradeLimitReached(trades) THEN FALSE
        ELSE IF balance <= 0 THEN FALSE
        ELSE IF /\ signal.direction = "long"
                /\ \/ signal.stop_loss >= signal.entry_price
                   \/ signal.take_profit <= signal.entry_price
        THEN FALSE
        ELSE IF /\ signal.direction # "long"
                /\ \/ signal.stop_loss <= signal.entry_price
                   \/ signal.take_profit >= signal.entry_price
        THEN FALSE
        ELSE ~(risk > 0 /\ 2 * reward < 3 * risk)     \* reward / risk < 1.5

\* lines 202-212; account_balance > 0 here (validate_signal)
calculate_position_size(signal, balance) ==
    LET risk_per_share == Abs(signal.entry_price - signal.stop_loss)
        max_shares_by_risk ==
            (balance * risk_per_trade[1]) \div (risk_per_trade[2] * risk_per_share)
        max_shares_by_value == max_position_size \div signal.entry_price
    IN  IF risk_per_share = 0 THEN 0
        ELSE IF max_shares_by_risk <= max_shares_by_value
        THEN max_shares_by_risk ELSE max_shares_by_value

\* lines 217-225; applied counts how often close_position has added this
\* position's P&L to account_balance
Position(signal, quantity) ==
    [symbol |-> signal.symbol, direction |-> signal.direction,
     entry_price |-> signal.entry_price, quantity |-> quantity,
     stop_loss |-> signal.stop_loss, take_profit |-> signal.take_profit,
     applied |-> 0]

\* self.positions is a dict: here the sequence of its values in insertion order
Holds(positions, symbol) ==
    \E i \in 1..Len(positions) : positions[i].symbol = symbol
IndexOf(positions, symbol) ==
    CHOOSE i \in 1..Len(positions) : positions[i].symbol = symbol
Without(positions, symbol) ==
    SelectSeq(positions, LAMBDA p : p.symbol # symbol)

\* the bot's fields that a signal can change
BotState(enabled, trades, positions, balance) ==
    [trading_enabled |-> enabled, daily_trades |-> trades,
     positions |-> positions, account_balance |-> balance]

\* a gate that takes the flag as it was when the webhook was received
Accepts_FlagAtReceipt(signal, enabledNow, enabledAtReceipt) ==
    signal # NoSignal /\ enabledAtReceipt

\* line 134: `if signal and self.trading_enabled`, read when the coroutine runs
Accepts(signal, enabledNow, enabledAtReceipt) ==
    signal # NoSignal /\ enabledNow

\* line 165
AlreadyOpen(positions, symbol) == Holds(positions, symbol)

\* line 228: self.positions[symbol] = position (a key that exists keeps its
\* place in the dict)
Store(positions, position) ==
    IF Holds(positions, position.symbol)
    THEN [positions EXCEPT ![IndexOf(positions, position.symbol)] = position]
    ELSE Append(positions, position)

\* lines 214-229: store the position, count the trade
execute_trade(signal, quantity, b) ==
    [b EXCEPT !.positions = Store(b.positions, Position(signal, quantity)),
              !.daily_trades = @ + 1]

\* lines 158-174
handle_orb_signal(signal, b) ==
    IF ~validate_signal(signal, b.daily_trades, b.account_balance) THEN b
    ELSE IF AlreadyOpen(b.positions, signal.symbol) THEN b
    ELSE LET position_size == calculate_position_size(signal, b.account_balance)
         IN  IF position_size = 0 THEN b
             ELSE execute_trade(signal, position_size, b)

\* lines 130-137; the notification awaited at the end changes nothing and
\* its exceptions are caught at line 136
process_webhook(data, enabledAtReceipt, b) ==
    LET signal == parse_signal(data)
    IN  IF Accepts(signal, b.trading_enabled, enabledAtReceipt)
        THEN handle_orb_signal(signal, b)
        ELSE b

\* ---- monitor_positions ----
NoPrice == -1                \* get_current_price returned None
Prices == {97, 100}

\* lines 292-310: the reason, or "" for no exit
check_exit_conditions(position, current_price, now) ==
    IF position.direction = "long"
    THEN IF current_price <= position.stop_loss THEN "stop_loss"
         ELSE IF current_price >= position.take_profit THEN "take_profit"
         ELSE IF AfterMarketClose(now) THEN "market_close" ELSE ""
    ELSE IF current_price >= position.stop_loss THEN "stop_loss"
         ELSE IF current_price <= position.take_profit THEN "take_profit"
         ELSE IF AfterMarketClose(now) THEN "market_close" ELSE ""

\* lines 320-323
realized_pnl(position, exit_price) ==
    IF position.direction = "long"
    THEN (exit_price - position.entry_price) * position.quantity
    ELSE (position.entry_price - exit_price) * position.quantity

\* where the monitor task is: "idle" between iterations, "sending" inside
\* close_position at the await of line 329, "stopped" when the loop has ended
Monitor(pc, closing, todo, positions, balance) ==
    [pc |-> pc, closing |-> closing, todo |-> todo, positions |-> positions,
     account_balance |-> balance]

\* lines 326-329: close_position has added the P&L and awaits the
\* notification; the position is still in self.positions
Suspended(symbol, todo, positions, balance) ==
    Monitor("sending", symbol, todo, positions, balance)

\* lines 276-290 with close_position (312-332): the loop over the snapshot
\* todo runs without yielding until a notification is awaited (line 360) or
\* the snapshot is exhausted.  price gives get_current_price per symbol,
\* channel whether get_channel finds the channel.
RECURSIVE monitor_positions(_, _, _, _, _, _)
monitor_positions(todo, positions, balance, price, channel, now) ==
    IF todo = <<>> THEN Monitor("idle", "", <<>>, positions, balance)
    ELSE LET position == Head(todo)
             symbol == position.symbol
             current_price == price[symbol]
             reason == check_exit_conditions(position, current_price, now)
             rest == monitor_positions(Tail(todo), positions, balance, price,
                                       channel, now)
         IN  IF current_price = NoPrice \/ reason = "" THEN rest
             ELSE IF ~Holds(positions, symbol) THEN rest
             ELSE LET i == IndexOf(positions, symbol)
                      pnl == realized_pnl(positions[i], current_price)
                      applied == [positions EXCEPT ![i].applied = @ + 1]
                  IN  IF channel
                      THEN Suspended(symbol, Tail(todo), applied, balance + pnl)
                      ELSE monitor_positions(Tail(todo),
                                             Without(applied, symbol),
                                             balance + pnl, price, channel, now)

\* ---- state of the bot ----
VARIABLES
    trading_enabled,    \* the fields of lines 60-70
    daily_trades,
    positions,
    account_balance,
    scheduled,          \* process_webhook coroutines scheduled on the loop and
                        \* not yet run, in order (line 111)
    received,           \* webhooks received so far
    monitor,            \* the monitor_positions task: pc, closing, todo
    now,                \* the time of day, datetime.now()
    startTime,          \* the time of day at which on_ready started the tasks
    resetDue,           \* an iteration of daily_reset is due
    sinceReset,         \* time slots since daily_reset last zeroed
                        \* daily_trades, or since the start
    lastWebhook         \* record of the process_webhook run by the latest
                        \* step, if that step ran one

botVars == <<trading_enabled, daily_trades, positions, account_balance,
             scheduled, received, monitor, now, startTime, resetDue,
             sinceReset, lastWebhook>>

TheBot == BotState(trading_enabled, daily_trades, positions, account_balance)

MonitorIdle == [pc |-> "idle", closing |-> "", todo |-> <<>>]

\* what the most recent process_webhook met and did: the payload, the flag
\* when it was received and when it ran, daily_trades and whether the symbol
\* had an open position when it ran, and whether it stored a position
WebhookRun(job, b, after) ==
    [ran |-> TRUE, data |-> job.data,
     enabledAtReceipt |-> job.enabledAtReceipt,
     enabled |-> b.trading_enabled, trades |-> b.daily_trades,
     held |-> job.data.kind = "signal" /\ Holds(b.positions, job.data.symbol),
     opened |-> after.positions # b.positions]

NoWebhook ==
    [ran |-> FALSE, data |-> EmptyData, enabledAtReceipt |-> FALSE,
     enabled |-> FALSE, trades |-> 0, held |-> FALSE, opened |-> FALSE]

\* lines 54-78: the bot as constructed, before on_ready
BotConstructed ==
    /\ trading_enabled = FALSE
    /\ daily_trades = 0
    /\ positions = <<>>
    /\ account_balance = StartBalance
    /\ scheduled = <<>>
    /\ received = 0
    /\ monitor = MonitorIdle
    /\ startTime = NotStarted
    /\ resetDue = FALSE
    /\ sinceReset = 0
    /\ lastWebhook = NoWebhook

\* ---- state of the webhook handler of src/main.py ----
VARIABLES
    env,            \* which environment variables are set: [discord, alpaca]
    inputs,         \* the webhook bodies the environment sends in this run
    clock,          \* the UTC date, datetime.now(timezone.utc).date()
    current_day,    \* the module globals of lines 58-60
    daily_loss_r,
    trade_count,
    handlers,       \* how many request handlers are at each position
    last,           \* record of the most recent run of lines 110-311
    entriesToday,   \* successful entry submissions since the last day reset
    cleanRun,       \* every request so far was a valid, accepted entry signal
                    \* handled on one UTC day
    outbox,         \* the bag of contents held by the handlers awaiting the post
    sent,           \* the content delivered to Discord by the latest step, if
                    \* that step was a post that Discord answered
    blockedDay,     \* the UTC day of the most recent guardrail refusal
    observing       \* whether this run records the contents in flight
                    \* (outbox and sent)

hookVars == <<env, inputs, clock, current_day, daily_loss_r, trade_count,
              handlers, last, entriesToday, cleanRun, outbox, sent, blockedDay,
              observing>>

vars == <<hookVars, botVars>>

TheLedger == Ledger(current_day, daily_loss_r, trade_count)

\* handler positions: "body" awaits request.body() (line 110), "post" awaits
\* the Discord post (line 314), "done" returned {"status": "ok"}, "raised"
\* left by an exception.  Handlers at the same position are interchangeable,
\* so the state keeps their number.
Positions == {"body", "post", "done", "raised"}
Move(h, from, to) == [h EXCEPT ![from] = @ - 1, ![to] = @ + 1]
Waiting(n) == [q \in Positions |-> IF q = "body" THEN n ELSE 0]

\* lines 303-304: the two ledger values rendered into the Discord content
\* a content that leaves the loss out
Content_TradesOnly(L) == [daily_loss_r |-> 0, trade_count |-> L.trades]

Content(L) == [daily_loss_r |-> L.loss, trade_count |-> L.trades]

\* a handler between line 311 and line 314: the content it built, and (for the
\* claims) the ledger its own decision left behind
Message(content, own) == [content |-> content, own |-> own]
NoMessage == [content |-> Content(Ledger(NoDay, 0, 0)),
              own |-> Ledger(NoDay, 0, 0), posted |-> FALSE]

\* a post that renders the globals as they are when the post is made
PostedContent_ReadsGlobals(m, L) == Content(L)

\* line 314: the post sends the local string built at lines 297-311; the
\* globals (L) are not read again
PostedContent(m, L) == m.content

NoLast ==
    [body |-> RawBody("text", {}), data |-> FALSE,
     event_type |-> "UNKNOWN", symbol |-> QQQ, reason |-> Absent,
     today |-> NoDay, blockedOn |-> NoDay, before |-> Ledger(NoDay, 0, 0),
     observed |-> Ledger(NoDay, 0, 0), ledger |-> Ledger(NoDay, 0, 0),
     result |-> "None", guardrail_info |-> "", calls |-> <<>>,
     content |-> Content(Ledger(NoDay, 0, 0)), raised |-> FALSE]

\* a JSON entry signal whose three prices parse, with a positive entry price
\* and a stop different from it
ValidEntryBody(body) ==
    /\ body.shape = "json"
    /\ body.event \in {Str("ENTRY_LONG"), Str("ENTRY_SHORT")}
    /\ body.entryPrice.tag = "num" /\ body.orHigh.tag = "num"
    /\ body.orLow.tag = "num"
    /\ body.entryPrice.v > 0
    /\ body.entryPrice.v #
           (IF body.event = Str("ENTRY_LONG") THEN body.orLow.v ELSE body.orHigh.v)

\* the bodies of the runs with several requests: one of each kind of signal
CoreBodies ==
    { JsonBody(Str("ENTRY_LONG"), Absent, Absent, <<Num(100), Num(101), Num(99)>>),
      JsonBody(Str("ENTRY_SHORT"), Str(BTC_USD), Absent,
               <<Num(300), Num(301), Num(299)>>),
      JsonBody(Str("ENTRY_SHORT"), Absent, Absent, <<Num(100), Absent, Num(99)>>),
      JsonBody(Str("PARTIAL_EXIT"), Str(BTC_USD), Absent,
               <<Absent, Absent, Absent>>),
      JsonBody(Str("FINAL_EXIT"), Str(BTC_USD), Str("STOP_PHASE1"),
               <<Absent, Absent, Absent>>),
      JsonBody(Str("FINAL_EXIT"), Absent, Str("EOD"), <<Absent, Absent, Absent>>),
      RawBody("text", {"ORB_QQQ_ENTRY_LONG"}),
      RawBody("text", {"ORB_QQQ_EXIT"}) }

\* the process starts: nothing handled yet, NumRequests requests to come
Init ==
    /\ env \in [discord : BOOLEAN, alpaca : BOOLEAN]
    /\ inputs = CoreBodies
    /\ clock = 1
    /\ current_day = NoDay
    /\ daily_loss_r = 0
    /\ trade_count = 0
    /\ handlers = Waiting(NumRequests)
    /\ last = NoLast
    /\ entriesToday = 0
    /\ cleanRun = TRUE
    /\ outbox = EmptyBag
    /\ sent = NoMessage
    /\ blockedDay = NoDay
    /\ observing = FALSE
    /\ BotConstructed
    /\ now = 0

\* the ledgers the process can hold: the globals as initialised, or the
\* counters of some day (from Init each is reached by at most
\* MAX_TRADES_PER_DAY placed entries and MaxLossUnits stop exits on that day)
Ledgers ==
    {Ledger(NoDay, 0, 0)}
    \cup {Ledger(d, -l, t) : d \in Days, l \in 0..MaxLossUnits,
                             t \in 0..MAX_TRADES_PER_DAY}

\* one request with any body arrives at a process holding any ledger
InitEngine ==
    /\ env \in [discord : BOOLEAN, alpaca : BOOLEAN]
    /\ inputs = Bodies
    /\ clock \in Days
    /\ \E L \in Ledgers :
         /\ L.day <= clock
         /\ current_day = L.day
         /\ daily_loss_r = L.loss
         /\ trade_count = L.trades
    /\ handlers = Waiting(1)
    /\ last = NoLast
    /\ entriesToday = trade_count
    /\ cleanRun = FALSE
    /\ outbox = EmptyBag
    /\ sent = NoMessage
    /\ blockedDay = NoDay
    /\ observing = FALSE
    /\ BotConstructed
    /\ now = 0

\* line 107-108: DISCORD_WEBHOOK_URL is not set, the handler raises at once
RejectUnconfigured ==
    /\ UNCHANGED botVars
    /\ handlers["body"] > 0
    /\ ~env.discord
    /\ handlers' = Move(handlers, "body", "raised")
    /\ cleanRun' = FALSE
    /\ UNCHANGED <<env, inputs, clock, current_day, daily_loss_r, trade_count,
                   last, entriesToday, outbox, blockedDay, observing>>
    /\ sent' = NoMessage

\* lines 110-311: the body has arrived; reset, parse, decide, update the
\* ledger and build the Discord content, with no await in between
Process ==
    /\ UNCHANGED botVars
    /\ handlers["body"] > 0
    /\ env.discord
    /\ \E body \in inputs :
         LET before == TheLedger
             observed == reset_daily_if_needed(before, clock)
             p == Parse(body)
         IN  \E o \in Engine(p, body, observed, env.alpaca) :
               /\ o.ledger.loss >= -MaxLossUnits
               /\ current_day' = o.ledger.day
               /\ daily_loss_r' = o.ledger.loss
               /\ trade_count' = o.ledger.trades
               /\ handlers' = Move(handlers, "body",
                                   IF o.raised THEN "raised" ELSE "post")
               /\ last' = [body |-> body, data |-> p.data,
                           event_type |-> p.event_type, symbol |-> p.symbol,
                           reason |-> p.reason, today |-> clock,
                           blockedOn |-> blockedDay,
                           before |-> before, observed |-> observed,
                           ledger |-> o.ledger, result |-> o.result,
                           guardrail_info |-> o.guardrail_info,
                           calls |-> o.calls,
                           content |-> Content(o.ledger),
                           raised |-> o.raised]
               /\ outbox' = IF o.raised \/ ~observing THEN outbox
                            ELSE outbox (+) SetToBag({Message(Content(o.ledger),
                                                              o.ledger)})
               /\ entriesToday' =
                      (IF before.day # clock THEN 0 ELSE entriesToday)
                      + (IF o.result = "Placed" THEN 1 ELSE 0)
               /\ cleanRun' = (/\ cleanRun
                               /\ before.day \in {NoDay, clock}
                               /\ ValidEntryBody(body)
                               /\ o.result \in {"Placed", "BlockedMaxTrades",
                                                "BlockedLossLimit"})
               /\ blockedDay' = IF o.result \in GuardrailResults
                                THEN clock ELSE blockedDay
    /\ sent' = NoMessage
    /\ UNCHANGED <<env, inputs, clock, observing>>

\* lines 313-316: the post to Discord returns, the handler returns status ok
NotifyOk ==
    /\ UNCHANGED botVars
    /\ handlers["post"] > 0
    /\ handlers' = Move(handlers, "post", "done")
    /\ IF observing
       THEN \E m \in BagToSet(outbox) :
              /\ outbox' = outbox (-) SetToBag({m})
              /\ sent' = [content |-> PostedContent(m, TheLedger),
                          own |-> m.own, posted |-> TRUE]
       ELSE outbox' = outbox /\ sent' = NoMessage
    /\ UNCHANGED observing
    /\ UNCHANGED <<env, inputs, clock, current_day, daily_loss_r, trade_count,
                   last, entriesToday, cleanRun, blockedDay>>

\* lines 313-314: the post raises (httpx transport error); nothing catches it
NotifyFail ==
    /\ UNCHANGED botVars
    /\ handlers["post"] > 0
    /\ handlers' = Move(handlers, "post", "raised")
    /\ IF observing
       THEN \E m \in BagToSet(outbox) : outbox' = outbox (-) SetToBag({m})
       ELSE outbox' = outbox
    /\ UNCHANGED observing
    /\ UNCHANGED <<env, inputs, clock, current_day, daily_loss_r, trade_count,
                   last, entriesToday, cleanRun, blockedDay>>
    /\ sent' = NoMessage

\* midnight UTC passes
Tick ==
    /\ UNCHANGED botVars
    /\ clock < MaxDay
    /\ clock' = clock + 1
    /\ sent' = NoMessage
    /\ UNCHANGED <<env, inputs, current_day, daily_loss_r, trade_count, handlers,
                   last, entriesToday, cleanRun, outbox, blockedDay, observing>>

Next ==
    \/ RejectUnconfigured
    \/ Process
    \/ NotifyOk
    \/ NotifyFail
    \/ Tick

Spec == Init /\ [][Next]_vars

SpecEngine == InitEngine /\ [][Next]_vars

\* the process starts with one request fewer to come, and the run records
\* the content every handler holds between its decision and its post
InitNotify ==
    /\ env \in [discord : BOOLEAN, alpaca : BOOLEAN]
    /\ inputs = CoreBodies
    /\ clock = 1
    /\ current_day = NoDay
    /\ daily_loss_r = 0
    /\ trade_count = 0
    /\ handlers = Waiting(NumRequests - 1)
    /\ last = NoLast
    /\ entriesToday = 0
    /\ cleanRun = TRUE
    /\ outbox = EmptyBag
    /\ sent = NoMessage
    /\ blockedDay = NoDay
    /\ observing = TRUE
    /\ BotConstructed
    /\ now = 0

SpecNotify == InitNotify /\ [][Next]_vars

\* ==== the bot of src/orb_discord_bot.py as a state machine ====

\* no webhook server of src/main.py runs beside the bot
HookIdle ==
    /\ env = [discord |-> FALSE, alpaca |-> FALSE]
    /\ inputs = {}
    /\ clock = 1
    /\ current_day = NoDay
    /\ daily_loss_r = 0
    /\ trade_count = 0
    /\ handlers = Waiting(0)
    /\ last = NoLast
    /\ entriesToday = 0
    /\ cleanRun = TRUE
    /\ outbox = EmptyBag
    /\ sent = NoMessage
    /\ blockedDay = NoDay
    /\ observing = FALSE

\* the times of day at which the runs start the bot: in the minute 09:30,
\* and later in the morning
StartTimes == {ResetTime, 2}

\* main(): the bot is constructed at some time of day
InitBot ==
    /\ HookIdle
    /\ BotConstructed
    /\ now \in StartTimes

\* the bot after 16:00 of the day it was started on, trading started, with
\* so many trades made that day that the signals of the run can reach
\* max_daily_trades, and every position closed again at its entry price
\* (market_close)
InitBotCap ==
    /\ HookIdle
    /\ trading_enabled = TRUE
    /\ daily_trades \in (max_daily_trades - MaxSignals)..max_daily_trades
    /\ positions = <<>>
    /\ account_balance = StartBalance
    /\ scheduled = <<>>
    /\ received = 0
    /\ monitor = MonitorIdle
    /\ now = 3
    /\ startTime = 2
    /\ resetDue = FALSE
    /\ sinceReset = (now - startTime) % SlotsPerDay
    /\ lastWebhook = NoWebhook

Started == startTime # NotStarted

\* lines 80-87: the two task loops are started; a task loop runs its first
\* iteration at once.  Discord sends the ready event again after a new
\* session: start() of a loop that is running raises and ends on_ready, so
\* line 86 restarts monitor_positions only if that loop has ended, and line
\* 87 never starts daily_reset a second time.
on_ready ==
    /\ \/ /\ ~Started
          /\ startTime' = now
          /\ resetDue' = TRUE
          /\ sinceReset' = 0
          /\ UNCHANGED monitor
       \/ /\ Started
          /\ monitor.pc = "stopped"
          /\ monitor' = MonitorIdle
          /\ UNCHANGED <<startTime, resetDue, sinceReset>>
    /\ UNCHANGED <<trading_enabled, daily_trades, positions, account_balance,
                   scheduled, received, now>>
    /\ lastWebhook' = NoWebhook
    /\ UNCHANGED hookVars

\* time moves to the next slot; 24 hours after the previous iteration of
\* daily_reset (line 373) the next one is due.  A due iteration runs before
\* the slot ends.
TimePasses ==
    /\ Started
    /\ ~resetDue
    /\ now' = (now + 1) % SlotsPerDay
    /\ resetDue' = (now' = startTime)
    /\ sinceReset' = Min(sinceReset + 1, SlotsPerDay + 1)
    /\ UNCHANGED <<trading_enabled, daily_trades, positions, account_balance,
                   scheduled, received, monitor, startTime>>
    /\ lastWebhook' = NoWebhook
    /\ UNCHANGED hookVars

\* lines 373-379
daily_reset ==
    /\ resetDue
    /\ resetDue' = FALSE
    /\ IF IsResetMinute(now)
       THEN daily_trades' = 0 /\ sinceReset' = 0
       ELSE UNCHANGED <<daily_trades, sinceReset>>
    /\ UNCHANGED <<trading_enabled, positions, account_balance, scheduled,
                   received, monitor, now, startTime>>
    /\ lastWebhook' = NoWebhook
    /\ UNCHANGED hookVars

\* lines 383-397 (orb_start); the reply awaited at line 397 changes nothing
start_trading ==
    /\ Started
    /\ trading_enabled' = TRUE
    /\ UNCHANGED <<daily_trades, positions, account_balance, scheduled,
                   received, monitor, now, startTime, resetDue, sinceReset>>
    /\ lastWebhook' = NoWebhook
    /\ UNCHANGED hookVars

\* lines 399-410 (orb_stop)
stop_trading ==
    /\ Started
    /\ trading_enabled' = FALSE
    /\ UNCHANGED <<daily_trades, positions, account_balance, scheduled,
                   received, monitor, now, startTime, resetDue, sinceReset>>
    /\ lastWebhook' = NoWebhook
    /\ UNCHANGED hookVars

\* lines 106-119, on the Flask thread: a payload that is not empty schedules
\* process_webhook on the bot's loop
webhook ==
    /\ Started
    /\ received < MaxSignals
    /\ received' = received + 1
    /\ \E data \in WebhookData :
         scheduled' =
             IF data = EmptyData THEN scheduled
             ELSE Append(scheduled, [data |-> data,
                                     enabledAtReceipt |-> trading_enabled])
    /\ UNCHANGED <<trading_enabled, daily_trades, positions, account_balance,
                   monitor, now, startTime, resetDue, sinceReset>>
    /\ lastWebhook' = NoWebhook
    /\ UNCHANGED hookVars

\* lines 130-137 with everything they call: the oldest scheduled coroutine
\* runs; nothing in it yields before the position is stored and counted
ProcessWebhook ==
    /\ scheduled # <<>>
    /\ LET job == Head(scheduled)
           b == process_webhook(job.data, job.enabledAtReceipt, TheBot)
       IN  /\ daily_trades' = b.daily_trades
           /\ positions' = b.positions
           /\ lastWebhook' = WebhookRun(job, TheBot, b)
    /\ scheduled' = Tail(scheduled)
    /\ UNCHANGED <<trading_enabled, account_balance, received, monitor, now,
                   startTime, resetDue, sinceReset>>
    /\ UNCHANGED hookVars

\* the monitor task runs from the position todo on, under some prices
MonitorRuns(todo, pos) ==
    \E price \in [Symbols -> Prices \cup {NoPrice}], channel \in BOOLEAN :
        LET m == monitor_positions(todo, pos, account_balance, price, channel,
                                   now)
        IN  /\ positions' = m.positions
            /\ account_balance' = m.account_balance
            /\ monitor' = [pc |-> m.pc, closing |-> m.closing, todo |-> m.todo]

\* lines 270-290: an iteration of monitor_positions starts
MonitorTick ==
    /\ Started
    /\ monitor.pc = "idle"
    /\ positions # <<>>
    /\ \A i \in 1..Len(positions) : positions[i].applied < MaxApplied
    /\ MonitorRuns(positions, positions)
    /\ UNCHANGED <<trading_enabled, daily_trades, scheduled, received, now,
                   startTime, resetDue, sinceReset>>
    /\ lastWebhook' = NoWebhook
    /\ UNCHANGED hookVars

\* lines 329-332: the exit notification was sent; the position is removed and
\* the loop goes on with the rest of its snapshot
ExitNotified ==
    /\ monitor.pc = "sending"
    /\ MonitorRuns(monitor.todo, Without(positions, monitor.closing))
    /\ UNCHANGED <<trading_enabled, daily_trades, scheduled, received, now,
                   startTime, resetDue, sinceReset>>
    /\ lastWebhook' = NoWebhook
    /\ UNCHANGED hookVars

\* line 329: channel.send raises; the exception leaves close_position and
\* monitor_positions, line 332 is not reached.  The task loop then either
\* runs its next iteration later or ends, as the kind of exception decides.
ExitNotifyFails ==
    /\ monitor.pc = "sending"
    /\ \E pc \in {"idle", "stopped"} :
         monitor' = [pc |-> pc, closing |-> "", todo |-> <<>>]
    /\ UNCHANGED <<trading_enabled, daily_trades, positions, account_balance,
                   scheduled, received, now, startTime, resetDue, sinceReset>>
    /\ lastWebhook' = NoWebhook
    /\ UNCHANGED hookVars

NextBot ==
    \/ on_ready
    \/ TimePasses
    \/ daily_reset
    \/ start_trading
    \/ stop_trading
    \/ webhook
    \/ ProcessWebhook
    \/ MonitorTick
    \/ ExitNotified
    \/ ExitNotifyFails

SpecBot == InitBot /\ [][NextBot]_vars

SpecBotCap == InitBotCap /\ [][NextBot]_vars

BotTypeOK ==
    /\ trading_enabled \in BOOLEAN
    /\ daily_trades \in 0..max_daily_trades
    /\ received \in 0..MaxSignals
    /\ Len(positions) <= Cardinality(Symbols)
    /\ monitor.pc \in {"idle", "sending", "stopped"}
    /\ now \in TimesOfDay
    /\ sinceReset \in 0..(SlotsPerDay + 1)

\* requests whose body has arrived
Processed == handlers["post"] + handlers["done"] + handlers["raised"]

TypeOK ==
    /\ clock \in Days
    /\ TheLedger \in Ledgers
    /\ handlers \in [Positions -> 0..NumRequests]
    /\ last.result \in {"None", "NoAction", "BlockedLossLimit",
                        "BlockedMaxTrades", "MissingPrice", "InvalidRisk",
                        "EquityNonPositive", "QtyNonPositive", "Placed",
                        "TradingError", "NoPositionSize", "PartialClosed",
                        "PartialError", "FinalClosed", "FinalError"}

\* ---- what the claims speak about ----
FracEq(x, y) == x[1] * y[2] = y[1] * x[2]

\* the most recent request ran lines 110-311 to the end
Handled == last.result # "None" /\ ~last.raised
IsEntry == last.event_type \in {"ENTRY_LONG", "ENTRY_SHORT"}
Submits == {i \in 1..Len(last.calls) : last.calls[i].op = "submit_order"}
LedgerUntouched == last.ledger = last.observed
GuardrailsPass ==
    /\ last.observed.loss > -MAX_DAILY_LOSS_R
    /\ last.observed.trades < MAX_TRADES_PER_DAY
BlockedResults ==
    {"BlockedLossLimit", "BlockedMaxTrades", "MissingPrice", "InvalidRisk",
     "EquityNonPositive", "QtyNonPositive", "NoPositionSize"}

\* C1: N valid entry signals that the broker accepts, handled on one UTC day
\* from trade_count = 0 and daily_loss_r = 0, place exactly
\* min(N, MAX_TRADES_PER_DAY) entry orders and leave trade_count at that
\* number, however the handlers interleave.
C1_MinOfRequestsAndCap ==
    cleanRun =>
        /\ trade_count = Min(Processed, MAX_TRADES_PER_DAY)
        /\ entriesToday = Min(Processed, MAX_TRADES_PER_DAY)

C1_Witness ==
    /\ cleanRun
    /\ Processed > MAX_TRADES_PER_DAY
    /\ trade_count = MAX_TRADES_PER_DAY
    /\ last.result = "BlockedMaxTrades"

\* C2: an entry order is submitted only if the ledger the signal observed
\* after the day reset has daily_loss_r > -MAX_DAILY_LOSS_R and
\* trade_count < MAX_TRADES_PER_DAY; otherwise nothing is submitted and the
\* ledger is unchanged.
C2_EntryOnlyWithinGuardrails ==
    (last.result # "None" /\ IsEntry) =>
        /\ Submits # {} => GuardrailsPass
        /\ ~GuardrailsPass => (Submits = {} /\ LedgerUntouched)

C2_Witness ==
    /\ IsEntry
    /\ last.result = "Placed"
    /\ last.observed.trades = MAX_TRADES_PER_DAY - 1
    /\ last.observed.loss = 1 - MAX_DAILY_LOSS_R

\* C3: trade_count is the number of successful entry submissions since the
\* last day reset; a placed entry adds exactly 1, an entry that is blocked or
\* whose submission fails adds nothing.
C3_TradeCountCountsPlacedEntries ==
    /\ trade_count = entriesToday
    /\ (last.result # "None" /\ IsEntry) =>
           last.ledger.trades =
               last.observed.trades + (IF last.result = "Placed" THEN 1 ELSE 0)

C3_Witness ==
    /\ IsEntry
    /\ last.result = "TradingError"
    /\ Submits # {}
    /\ entriesToday > 0
    /\ trade_count = entriesToday

\* C4: a FINAL_EXIT with reason STOP_PHASE1 always lowers daily_loss_r by
\* exactly 1, whatever close_position does; any other reason leaves it
\* unchanged; trade_count is unchanged.
C4_StopExitAlwaysRecordsLoss ==
    (Handled /\ last.event_type = "FINAL_EXIT") =>
        /\ last.ledger.trades = last.observed.trades
        /\ last.ledger.loss =
               last.observed.loss
               - (IF last.reason = Str("STOP_PHASE1") THEN 1 ELSE 0)

\* C5: the guardrail tests run on a ledger of the current UTC day: a stored
\* day that differs is replaced and both counters are zeroed before the
\* tests, so counters of an earlier day never block an entry.
C5_GuardrailsSeeTodaysLedger ==
    last.result # "None" =>
        /\ last.observed.day = last.today
        /\ last.before.day # last.today =>
               (last.observed.loss = 0 /\ last.observed.trades = 0)
        /\ last.result = "BlockedMaxTrades" =>
               last.observed.trades >= MAX_TRADES_PER_DAY
        /\ last.result = "BlockedLossLimit" =>
               last.observed.loss <= -MAX_DAILY_LOSS_R
        /\ (last.before.day # last.today /\ IsEntry) =>
               last.result \notin {"BlockedMaxTrades", "BlockedLossLimit"}

C5_Witness ==
    /\ last.before.day \notin {NoDay, last.today}
    /\ last.before.trades = MAX_TRADES_PER_DAY
    /\ last.observed.trades = 0
    /\ last.result = "Placed"

\* C6: reset_daily_if_needed is idempotent within a UTC day: called when the
\* stored day is already today it leaves day, trade_count and daily_loss_r
\* as they are, non-zero counters included.
C6_ResetIdempotentWithinDay ==
    /\ (last.result # "None" /\ last.before.day = last.today) =>
           last.observed = last.before
    /\ \A L \in Ledgers, d \in Days :
           reset_daily_if_needed(reset_daily_if_needed(L, d), d)
               = reset_daily_if_needed(L, d)

C6_Witness ==
    /\ last.result # "None"
    /\ last.before.day = last.today
    /\ last.before.trades > 0
    /\ last.before.loss < 0
    /\ last.observed = last.before

\* the prices of the most recent body, when all three are numbers
PricesAreNumbers ==
    /\ last.body.entryPrice.tag = "num"
    /\ last.body.orHigh.tag = "num"
    /\ last.body.orLow.tag = "num"
StopOfLast ==
    IF last.event_type = "ENTRY_LONG" THEN last.body.orLow.v
    ELSE last.body.orHigh.v
RiskOfLast == Abs(last.body.entryPrice.v - StopOfLast)
EquityOfLast == last.calls[1].reply.equity

\* C7: an entry that passes the guardrails with parsed prices, a positive
\* risk per unit and a positive equity submits one order whose quantity is
\* min(equity * RISK_PER_TRADE / riskPerUnit, equity / entryPrice), unrounded
\* and positive, buying for ENTRY_LONG and selling for ENTRY_SHORT; entry 100,
\* orLow 99, equity 100000 gives 500.
C7_QuantityIsMinOfRiskAndNotional ==
    (/\ Handled /\ IsEntry /\ last.data /\ GuardrailsPass
     /\ PricesAreNumbers /\ last.body.entryPrice.v > 0 /\ RiskOfLast > 0
     /\ last.calls # <<>> /\ last.calls[1].reply.ok /\ EquityOfLast > 0) =>
        /\ Cardinality(Submits) = 1
        /\ LET order == last.calls[2]
               fromRisk == <<EquityOfLast * RISK_PER_TRADE[1],
                             RISK_PER_TRADE[2] * RiskOfLast>>
               cap == <<EquityOfLast, last.body.entryPrice.v>>
           IN  /\ order.op = "submit_order"
               /\ FracEq(order.qty,
                         IF FracLeq(fromRisk, cap) THEN fromRisk ELSE cap)
               /\ order.qty[1] > 0 /\ order.qty[2] > 0
               /\ order.side =
                      (IF last.event_type = "ENTRY_LONG" THEN "BUY" ELSE "SELL")
               /\ (/\ last.event_type = "ENTRY_LONG"
                   /\ last.body.entryPrice.v = 100 /\ last.body.orLow.v = 99
                   /\ EquityOfLast = 100000) => order.qty = <<500, 1>>

C7_Witness ==
    /\ last.result = "Placed"
    /\ last.event_type = "ENTRY_SHORT"
    /\ last.body.entryPrice = Num(300)
    /\ last.calls[2].qty = <<1000, 3>>
    /\ last.calls[2].side = "SELL"

C9_MissingPriceIsRefused ==
    (Handled /\ IsEntry /\ last.data /\ GuardrailsPass /\ ~PricesAreNumbers) =>
        /\ last.result = "MissingPrice"
        /\ last.calls = <<>>
        /\ LedgerUntouched

C9_Witness ==
    /\ Handled /\ GuardrailsPass
    /\ last.event_type = "ENTRY_SHORT"
    /\ last.body.orHigh = Absent
    /\ last.body.entryPrice = Num(100)
    /\ last.result = "MissingPrice"

\* C10: an entry read from the legacy markers ORB_QQQ_ENTRY_LONG or
\* ORB_QQQ_ENTRY_SHORT goes through the guardrail tests and is then refused
\* with the missing/invalid price message, never with the default
\* "No trading action taken."; no order is placed and the ledger is unchanged.
C10_LegacyEntryIsRefusedExplicitly ==
    (Handled /\ IsEntry /\ ~last.data) =>
        /\ last.result =
               (IF last.observed.loss <= -MAX_DAILY_LOSS_R THEN "BlockedLossLimit"
                ELSE IF last.observed.trades >= MAX_TRADES_PER_DAY
                THEN "BlockedMaxTrades" ELSE "MissingPrice")
        /\ Submits = {}
        /\ LedgerUntouched

\* C11: an entry that passes the guardrails with parsed prices is refused
\* with the invalid-risk message, without fetching the equity, when the entry
\* price equals the stop; with a positive risk per unit it is refused when the
\* fetched equity is <= 0.  Either way no order is submitted and the ledger is
\* unchanged.
C11_ZeroRiskOrNoEquityIsRefused ==
    (/\ Handled /\ IsEntry /\ last.data /\ GuardrailsPass
     /\ PricesAreNumbers /\ last.body.entryPrice.v > 0) =>
        /\ RiskOfLast = 0 =>
               /\ last.result = "InvalidRisk"
               /\ last.calls = <<>>
               /\ LedgerUntouched
        /\ (/\ RiskOfLast > 0 /\ last.calls # <<>>
            /\ last.calls[1].reply.ok /\ EquityOfLast <= 0) =>
               /\ last.result \in BlockedResults
               /\ Len(last.calls) = 1
               /\ LedgerUntouched

C11_Witness ==
    /\ Handled /\ GuardrailsPass
    /\ last.event_type = "ENTRY_LONG"
    /\ last.body.entryPrice = Num(100) /\ last.body.orLow = Num(100)
    /\ last.result = "InvalidRisk"
    /\ last.calls = <<>>

\* the symbol as the signal carries it: the JSON field, or QQQ when the field
\* is absent or the body is not a JSON object
ReceivedSymbol ==
    IF last.body.shape = "json" /\ last.body.symbol # Absent
    THEN last.body.symbol.s ELSE QQQ
BTCUSD == <<"B", "T", "C", "U", "S", "D">>
CallsOf(op) == {i \in 1..Len(last.calls) : last.calls[i].op = op}
Failures == {i \in 1..Len(last.calls) : "raised" \in DOMAIN last.calls[i]}

\* C12: the position lookup of PARTIAL_EXIT and the close of FINAL_EXIT use
\* the symbol with every "/" removed (BTC/USD becomes BTCUSD, a symbol without
\* "/" is unchanged); every order, entry or partial exit, uses the symbol
\* exactly as received.
C12_LookupsStripSlashOrdersDoNot ==
    last.result # "None" =>
        /\ \A i \in CallsOf("get_open_position") \cup CallsOf("close_position") :
               /\ ReceivedSymbol = BTC_USD => last.calls[i].symbol = BTCUSD
               /\ ReceivedSymbol \in {QQQ, SPY} =>
                      last.calls[i].symbol = ReceivedSymbol
        /\ \A i \in Submits : last.calls[i].symbol = ReceivedSymbol
        /\ last.event_type = "PARTIAL_EXIT" /\ ~last.raised =>
               CallsOf("get_open_position") = {1}
        /\ last.event_type = "FINAL_EXIT" /\ ~last.raised =>
               CallsOf("close_position") = {1}

C12_Witness ==
    /\ last.result = "PartialClosed"
    /\ ReceivedSymbol = BTC_USD
    /\ last.calls[1].op = "get_open_position"
    /\ last.calls[1].symbol = BTCUSD
    /\ last.calls[2].op = "submit_order"
    /\ last.calls[2].symbol = BTC_USD

\* C13: a PARTIAL_EXIT whose symbol has an open position of quantity q > 0
\* submits exactly one order, for q / 2, on the side opposite to the position
\* (sell for a long position, buy for a short one), whatever the guardrail
\* state, and leaves the ledger unchanged.
C13_PartialExitHalvesOnOppositeSide ==
    (/\ Handled /\ last.event_type = "PARTIAL_EXIT"
     /\ last.calls[1].reply.ok /\ last.calls[1].reply.qty > 0) =>
        /\ Submits = {2}
        /\ Len(last.calls) = 2
        /\ FracEq(last.calls[2].qty, <<last.calls[1].reply.qty, 2>>)
        /\ last.calls[2].side =
               (IF last.calls[1].reply.side = "long" THEN "SELL" ELSE "BUY")
        /\ LedgerUntouched


ErrorResults == {"TradingError", "PartialError", "FinalError"}

\* C14: a PARTIAL_EXIT for a symbol with no open position, or with an open
\* quantity of zero, submits no order, is reported as refused (blocked), not
\* as an error, and leaves the ledger unchanged.
C14_NoPositionIsRefusedNotError ==
    (/\ Handled /\ last.event_type = "PARTIAL_EXIT"
     /\ \/ last.calls[1].reply = NotFound
        \/ (last.calls[1].reply.ok /\ last.calls[1].reply.qty = 0)) =>
        /\ Submits = {}
        /\ last.result \in BlockedResults
        /\ LedgerUntouched

\* C15: when a client call (get_account, submit_order, get_open_position,
\* close_position) raises, the handler catches it and reports an error
\* message, leaves the ledger as the signal found it, and goes on to post its
\* notification.
C15_BrokerFailureIsCaught ==
    (last.result # "None" /\ Failures # {}) =>
        /\ ~last.raised
        /\ last.result \in ErrorResults
        /\ LedgerUntouched
        /\ TheLedger = last.ledger
        /\ handlers["post"] + handlers["done"] + handlers["raised"] > 0
        /\ Failures = {Len(last.calls)}

C15_Witness ==
    /\ last.event_type = "FINAL_EXIT"
    /\ last.reason = Str("EOD")
    /\ Failures = {1}
    /\ last.result = "FinalError"
    /\ handlers["post"] > 0
    /\ last.observed.trades > 0

\* C16: a failure of the Discord post never reaches the caller: a handler
\* that was awaiting the post never ends by raising.
C16_NotifierFailureNotEscalated ==
    [][handlers'["post"] < handlers["post"]
          => handlers'["raised"] = handlers["raised"]]_vars

\* what legacy matching makes of a body text: the first marker found, in the
\* order ENTRY_LONG, ENTRY_SHORT, EXIT
LegacyEvent(markers) ==
    CASE "ORB_QQQ_ENTRY_LONG" \in markers -> "ENTRY_LONG"
      [] "ORB_QQQ_ENTRY_LONG" \notin markers
         /\ "ORB_QQQ_ENTRY_SHORT" \in markers -> "ENTRY_SHORT"
      [] markers = {"ORB_QQQ_EXIT"} -> "FINAL_EXIT"
      [] markers = {} -> "UNKNOWN"

\* C17: a body that starts with { and does not decode does not make the
\* handler fail; it is classified as the same text is by legacy matching
\* (first marker found, else UNKNOWN; symbol QQQ; no reason).  The plain text
\* ORB_QQQ_EXIT is FINAL_EXIT for QQQ with no reason.
C17_MalformedJsonFallsBackToLegacy ==
    (last.result # "None" /\ last.body.shape \in {"badjson", "text"}) =>
        /\ ~last.data
        /\ last.event_type = LegacyEvent(last.body.markers)
        /\ last.symbol = QQQ
        /\ last.reason = Absent
        /\ env.alpaca => ~last.raised

C17_Witness ==
    /\ last.body = RawBody("badjson", {"ORB_QQQ_EXIT"})
    /\ last.event_type = "FINAL_EXIT"
    /\ last.symbol = QQQ
    /\ last.result = "FinalClosed"
    /\ last.calls[1].symbol = QQQ

\* the body names none of the four events: the JSON event field is absent or
\* another string, or the text has no marker
BodyEventUnknown ==
    IF last.body.shape = "json"
    THEN last.body.event \notin {Str("ENTRY_LONG"), Str("ENTRY_SHORT"),
                                 Str("PARTIAL_EXIT"), Str("FINAL_EXIT")}
    ELSE last.body.markers = {}

\* C18: a signal whose event is none of ENTRY_LONG, ENTRY_SHORT,
\* PARTIAL_EXIT, FINAL_EXIT causes no client call (no order, no position
\* query, no close) and leaves the ledger unchanged.
C18_UnknownEventDoesNothing ==
    (Handled /\ BodyEventUnknown) =>
        /\ last.calls = <<>>
        /\ last.result = "NoAction"
        /\ LedgerUntouched

C18_Witness ==
    /\ Handled
    /\ last.body.shape = "json"
    /\ last.body.event = Str("HOLD")
    /\ last.body.reason = Str("STOP_PHASE1")
    /\ last.result = "NoAction"
    /\ last.observed.loss < 0

\* C19: daily_loss_r <= 0 and trade_count >= 0 always; apart from the day
\* reset, only a FINAL_EXIT with reason STOP_PHASE1 changes daily_loss_r, and
\* it lowers it; entries, partial exits and unknown events leave it alone.
C19_LossOnlyFallsOnStopExit ==
    /\ daily_loss_r <= 0
    /\ trade_count >= 0
    /\ last.result # "None" =>
           /\ TheLedger = last.ledger
           /\ last.ledger.loss # last.observed.loss =>
                  /\ last.event_type = "FINAL_EXIT"
                  /\ last.reason = Str("STOP_PHASE1")
                  /\ last.ledger.loss < last.observed.loss

C19_Witness ==
    /\ last.event_type = "FINAL_EXIT"
    /\ last.reason = Str("STOP_PHASE1")
    /\ last.observed.loss = -1
    /\ daily_loss_r = -2

\* C20: every order, entry or partial exit, is good-till-cancelled when the
\* symbol of the signal contains "/" and a day order otherwise.
C20_SlashSymbolsAreGoodTillCancelled ==
    \A i \in Submits :
        /\ ReceivedSymbol = BTC_USD => last.calls[i].tif = "GTC"
        /\ ReceivedSymbol \in {QQQ, SPY} => last.calls[i].tif = "DAY"
        /\ last.calls[i].tif = "GTC" <=>
               \E k \in 1..Len(ReceivedSymbol) : ReceivedSymbol[k] = "/"

C20_Witness ==
    /\ last.result = "Placed"
    /\ ReceivedSymbol = BTC_USD
    /\ last.calls[2].symbol = BTC_USD
    /\ last.calls[2].tif = "GTC"

\* C21: the 'Daily loss (R)' and 'Trades today' values a handler posts are the
\* ledger as its own decision left it, whatever other handlers did between
\* its decision and its post: this holds for the content of every handler
\* awaiting the post and for the content of every post made, and the content
\* built by a placed entry or a recorded stop exit includes that update.
C21_SnapshotIsOwnPostDecisionLedger ==
    /\ \A m \in BagToSet(outbox) :
           /\ m.content.daily_loss_r = m.own.loss
           /\ m.content.trade_count = m.own.trades
    /\ sent.posted =>
           /\ sent.content.daily_loss_r = sent.own.loss
           /\ sent.content.trade_count = sent.own.trades
    /\ last.result # "None" =>
           /\ last.content.daily_loss_r = last.ledger.loss
           /\ last.content.trade_count = last.ledger.trades
           /\ last.result = "Placed" =>
                  last.content.trade_count = last.observed.trades + 1
           /\ last.guardrail_info = "Recorded -1R loss (reason=STOP_PHASE1)." =>
                  last.content.daily_loss_r = last.observed.loss - 1

\* a post made after two other handlers changed the ledger of the same day
C21_Witness ==
    /\ sent.posted
    /\ sent.own.day = current_day
    /\ sent.own.trades = 1
    /\ sent.content.trade_count = 1
    /\ trade_count = 2
    /\ sent.own.loss = 0
    /\ sent.content.daily_loss_r = 0
    /\ daily_loss_r = -1

\* C22: within one UTC day trade_count never decreases and daily_loss_r never
\* increases; an entry signal handled on a day on which an entry was already
\* refused by a guardrail submits no order and leaves the ledger unchanged (a
\* structured one is refused by a guardrail again), so an entry is placed
\* again only after the day reset.  Exits are not gated: a stop exit still
\* lowers daily_loss_r on such a day.
C22_BlockedStaysBlockedUntilReset ==
    last.result # "None" =>
        /\ TheLedger = last.ledger
        /\ last.before.day = last.today =>
               /\ last.observed = last.before
               /\ last.ledger.trades >= last.before.trades
               /\ last.ledger.loss <= last.before.loss
        /\ (IsEntry /\ last.blockedOn = last.today) =>
               /\ Submits = {}
               /\ LedgerUntouched
               /\ last.data /\ ~last.raised => last.result \in GuardrailResults
        /\ last.result = "Placed" => last.blockedOn # last.today
        /\ (/\ Handled /\ last.event_type = "FINAL_EXIT"
            /\ last.reason = Str("STOP_PHASE1") /\ last.calls = <<ClosePosition(
                   symbol_for_positions(last.symbol))>>) =>
               last.ledger.loss = last.observed.loss - 1

\* a second entry refused on the day of an earlier refusal
C22_Witness ==
    /\ IsEntry /\ last.data
    /\ last.blockedOn = last.today
    /\ last.before.day = last.today
    /\ last.result = "BlockedLossLimit"
    /\ last.observed.loss = -MAX_DAILY_LOSS_R
    /\ last.calls = <<>>

\* C23: every entry order that is submitted has a quantity q with
\* q * riskPerUnit <= equity * RISK_PER_TRADE and q * entryPrice <= equity,
\* and one of the two holds with equality.
C23_QuantityWithinRiskAndNotional ==
    (last.result # "None" /\ IsEntry) =>
        \A i \in Submits :
            LET q == last.calls[i].qty
                riskLeft == q[1] * RiskOfLast * RISK_PER_TRADE[2]
                riskRight == EquityOfLast * RISK_PER_TRADE[1] * q[2]
                notionalLeft == q[1] * last.body.entryPrice.v
                notionalRight == EquityOfLast * q[2]
            IN  /\ q[2] > 0
                /\ riskLeft <= riskRight
                /\ notionalLeft <= notionalRight
                /\ riskLeft = riskRight \/ notionalLeft = notionalRight

\* an order capped by the notional, with risk strictly below the fraction
C23_Witness ==
    /\ last.result = "Placed"
    /\ last.event_type = "ENTRY_LONG"
    /\ last.body.entryPrice = Num(300)
    /\ EquityOfLast = 100000
    /\ last.calls[2].qty[1] * 300 = 100000 * last.calls[2].qty[2]
    /\ last.calls[2].qty[1] * RiskOfLast * RISK_PER_TRADE[2]
           < 100000 * RISK_PER_TRADE[1] * last.calls[2].qty[2]

\* ---- what the claims about the bot speak about ----
\* a step in which a scheduled process_webhook runs
WebhookRuns == scheduled # <<>> /\ scheduled' = Tail(scheduled)
Range(s) == {s[i] : i \in 1..Len(s)}
\* a step that stores a position that was not there
OpensPosition ==
    \E p \in Range(positions') : p.applied = 0 /\ p \notin Range(positions)
ValidLong == SignalData("AAPL", "long", 100, 98, 103)

\* C24: daily_trades never exceeds max_daily_trades; a position is stored
\* only in a step that starts with daily_trades < max_daily_trades, and that
\* step adds exactly one position and exactly 1 to daily_trades; nothing else
\* raises daily_trades.  This holds with several process_webhook coroutines
\* scheduled on the loop.
C24_DailyTradesWithinLimit ==
    [][/\ daily_trades <= max_daily_trades
       /\ daily_trades' <= max_daily_trades
       /\ OpensPosition =>
              /\ WebhookRuns
              /\ daily_trades < max_daily_trades
              /\ daily_trades' = daily_trades + 1
              /\ Len(positions') = Len(positions) + 1
       /\ daily_trades' > daily_trades => OpensPosition]_vars

\* the trade that reaches the limit, with another coroutine still scheduled
C24_Witness ==
    /\ lastWebhook.opened
    /\ lastWebhook.trades = max_daily_trades - 1
    /\ daily_trades = max_daily_trades
    /\ Len(positions) = 1
    /\ scheduled # <<>>
    /\ scheduled[1].data.kind = "signal"

\* C25: daily_reset zeroes daily_trades every day: at whatever time of day
\* the bot was started, never more than 24 hours (SlotsPerDay time slots)
\* pass since the start or since the previous reset without daily_trades
\* being set back to 0.
C25_DailyResetEveryDay == sinceReset <= SlotsPerDay

\* C26: a position whose P&L has been added to account_balance is removed
\* from positions by the same close_position call, whether or not the exit
\* notification succeeds: a stored position has its P&L applied at most
\* once, and once only while close_position is awaiting its notification.
C26_PositionClosedOnce ==
    \A p \in Range(positions) :
        \/ p.applied = 0
        \/ /\ p.applied = 1
           /\ monitor.pc = "sending"
           /\ monitor.closing = p.symbol

\* C27: a process_webhook that runs while trading_enabled is false stores no
\* position and leaves daily_trades alone, also when its webhook was
\* received while the flag was true; no step from a state with the flag false
\* stores a position or raises daily_trades; a process_webhook for a symbol
\* that has an open position leaves positions and daily_trades unchanged.
C27_DisabledBotIgnoresSignals ==
    [][/\ ~trading_enabled =>
              /\ ~OpensPosition
              /\ daily_trades' <= daily_trades
       /\ (WebhookRuns /\ ~trading_enabled) =>
              /\ positions' = positions
              /\ daily_trades' = daily_trades
       /\ (/\ WebhookRuns
           /\ Head(scheduled).data.kind = "signal"
           /\ Holds(positions, Head(scheduled).data.symbol)) =>
              /\ positions' = positions
              /\ daily_trades' = daily_trades]_vars

\* a valid signal received while trading was started and run after orb_stop
C27_Witness ==
    /\ lastWebhook.ran
    /\ lastWebhook.data = ValidLong
    /\ lastWebhook.enabledAtReceipt
    /\ ~lastWebhook.enabled
    /\ ~lastWebhook.held
    /\ ~lastWebhook.opened
    /\ ~trading_enabled
    /\ positions = <<>>
    /\ daily_trades = 0

====
